---------------------------- MODULE Spec2Model ----------------------------
(***************************************************************************)
(* SchemeSarthi (app.py): the normalisation, filter, scoring and ranking   *)
(* pipeline over a table of government schemes.                            *)
(*                                                                         *)
(* Text is a sequence of one-character strings, so that lowercasing,       *)
(* trimming, joining, substring and pattern search are computed, not       *)
(* assumed.  A DataFrame is [columns |-> sequence of column names,         *)
(* rows |-> sequence of [idx |-> index label, cells |-> column -> cell]].  *)
(***************************************************************************)
EXTENDS Integers, Sequences, FiniteSets, TLC

VARIABLES
  pc,            \* position of the script run
  raw,           \* the table pd.read_csv returns for gov.csv
  df,            \* module-level df = _load_dataframe(DATA_FILE)
  profile,       \* the profile dict built from the sidebar widgets
  search_query,  \* the sidebar search box
  limit,         \* the sidebar slider
  results,       \* module-level results (the filter stage's output)
  filtered,      \* recommend's local: _apply_numeric_filters' return value
  scored,        \* recommend's local: _score_rows' return value
  recs           \* recommend's return value

vars == <<pc, raw, df, profile, search_query, limit, results, filtered, scored, recs>>

---------------------------------------------------------------------------
(* Characters and strings                                                  *)

\* The characters in use, in code-point order (Python compares str by code point).
CodePoints ==
  <<" ", "(", ")", "/",
    "0", "1", "2", "3", "4", "5", "6", "7", "8", "9",
    "A", "B", "C", "D", "E", "F", "G", "H", "I", "J", "K", "L", "M",
    "N", "O", "P", "Q", "R", "S", "T", "U", "V", "W", "X", "Y", "Z",
    "_",
    "a", "b", "c", "d", "e", "f", "g", "h", "i", "j", "k", "l", "m",
    "n", "o", "p", "q", "r", "s", "t", "u", "v", "w", "x", "y", "z">>

\* ord(c), as a table over the characters in use
ord == [c \in {CodePoints[i] : i \in 1..Len(CodePoints)} |->
          CHOOSE i \in 1..Len(CodePoints) : CodePoints[i] = c]

\* c.lower(), as a table: 'A'..'Z' sit at 15..40 and 'a'..'z' at 42..67 of
\* CodePoints.
lower_char == [c \in DOMAIN ord |->
                 IF ord[c] >= 15 /\ ord[c] <= 40 THEN CodePoints[ord[c] + 27] ELSE c]

\* str.lower()
lower(s) == [i \in 1..Len(s) |-> lower_char[s[i]]]

RECURSIVE lstrip(_)
lstrip(s) == IF s # <<>> /\ Head(s) = " " THEN lstrip(Tail(s)) ELSE s

RECURSIVE rstrip(_)
rstrip(s) ==
  IF s # <<>> /\ s[Len(s)] = " " THEN rstrip(SubSeq(s, 1, Len(s) - 1)) ELSE s

\* str.strip()
strip(s) == rstrip(lstrip(s))

\* Python's `sub in text`
str_in(sub, text) ==
  \E k \in 0..(Len(text) - Len(sub)) :
     \A i \in 1..Len(sub) : text[k + i] = sub[i]

\* Python's str < str: lexicographic by code point, a proper prefix first.
RECURSIVE str_lt(_, _)
str_lt(a, b) ==
  IF b = <<>> THEN FALSE
  ELSE IF a = <<>> THEN TRUE
  ELSE IF Head(a) = Head(b) THEN str_lt(Tail(a), Tail(b))
  ELSE ord[Head(a)] < ord[Head(b)]

\* " ".join(parts)
RECURSIVE join(_)
join(parts) ==
  IF parts = <<>> THEN <<>>
  ELSE IF Len(parts) = 1 THEN parts[1]
  ELSE parts[1] \o <<" ">> \o join(Tail(parts))

\* re.compile(pat) succeeds: over this alphabet the only metacharacters are the
\* group parentheses, which must balance.
RECURSIVE paren_depth_ok(_, _)
paren_depth_ok(pat, depth) ==
  IF pat = <<>> THEN depth = 0
  ELSE IF Head(pat) = "(" THEN paren_depth_ok(Tail(pat), depth + 1)
  ELSE IF Head(pat) = ")" THEN depth > 0 /\ paren_depth_ok(Tail(pat), depth - 1)
  ELSE paren_depth_ok(Tail(pat), depth)

re_valid(pat) == paren_depth_ok(pat, 0)

\* The literal a pattern of characters and groups matches: a group only
\* brackets its contents, so the parentheses themselves match nothing.
re_literal(pat) == SelectSeq(pat, LAMBDA c : c # "(" /\ c # ")")

\* Series.str.contains(pat, na=False) on one value: re.search(pat, text),
\* regex=True being the default.
str_contains(text, pat) == str_in(re_literal(pat), text)

\* Series.str.contains(pat, case=False, na=False): re.IGNORECASE.
str_contains_nocase(text, pat) == str_in(lower(re_literal(pat)), lower(text))

---------------------------------------------------------------------------
(* Cells and tables                                                        *)

\* A cell is a str, a number or NaN (a cell pd.read_csv found empty).
Str(s) == [kind |-> "str", s |-> s, n |-> 0]
Num(n) == [kind |-> "num", s |-> <<>>, n |-> n]
NaN == [kind |-> "nan", s |-> <<>>, n |-> 0]

\* Series.fillna(value) on one cell
fillna(cell, value) == IF cell.kind = "nan" THEN value ELSE cell

\* Series.astype(str) on one cell of a text column (the tables here hold no
\* number in a text column; str(nan) is 'nan').
astype_str(cell) == IF cell.kind = "str" THEN cell.s ELSE <<"n","a","n">>

\* Series.astype(float) raises ValueError on a cell float() cannot convert:
\* float('') fails, a number or a NaN converts.
astype_float_ok(cell) == cell.kind # "str"

\* Series.astype(float) on one cell that converts
astype_float(cell) == cell.n

\* `col in df.columns`
has_column(d, col) == \E i \in 1..Len(d.columns) : d.columns[i] = col

\* df[col] = values (one value per row): the column is appended when new,
\* overwritten otherwise.
assign_column(d, col, values) ==
  [columns |-> IF has_column(d, col) THEN d.columns ELSE Append(d.columns, col),
   rows |-> [i \in 1..Len(d.rows) |->
               [idx |-> d.rows[i].idx,
                cells |-> [c \in DOMAIN d.rows[i].cells \cup {col} |->
                             IF c = col THEN values[i] ELSE d.rows[i].cells[c]]]]]

\* The rows at the positions where the boolean mask is TRUE, in order.
RECURSIVE mask_rows(_, _)
mask_rows(rows, mask) ==
  IF rows = <<>> THEN <<>>
  ELSE IF Head(mask) THEN <<Head(rows)>> \o mask_rows(Tail(rows), Tail(mask))
  ELSE mask_rows(Tail(rows), Tail(mask))

\* df[mask]: the rows the mask keeps, with their index labels.
select_rows(d, mask) == [columns |-> d.columns, rows |-> mask_rows(d.rows, mask)]

\* pd.DataFrame()
EmptyFrame == [columns |-> <<>>, rows |-> <<>>]

\* df.empty: no rows or no columns
is_empty(d) == d.rows = <<>> \/ d.columns = <<>>

\* head with the limit dropped
head_ignores_limit(d, n) == d

\* df.head(n)
head(d, n) ==
  [columns |-> d.columns,
   rows |-> SubSeq(d.rows, 1, IF n < Len(d.rows) THEN n ELSE Len(d.rows))]

---------------------------------------------------------------------------
(* Config                                                                  *)

DEFAULT_LIMIT == 5
MAX_LIMIT == 50

col_title == <<"t","i","t","l","e">>
col_name == <<"n","a","m","e">>
col_schemeName == <<"s","c","h","e","m","e","N","a","m","e">>
col_description == <<"d","e","s","c","r","i","p","t","i","o","n">>
col_eligibility == <<"e","l","i","g","i","b","i","l","i","t","y">>
col_schemeCategory == <<"s","c","h","e","m","e","C","a","t","e","g","o","r","y">>
col_category == <<"c","a","t","e","g","o","r","y">>
col_level == <<"l","e","v","e","l">>
col_state == <<"s","t","a","t","e">>
col_department == <<"d","e","p","a","r","t","m","e","n","t">>
col_tags == <<"t","a","g","s">>
col_benefits == <<"b","e","n","e","f","i","t","s">>
col_minAge == <<"m","i","n","A","g","e">>
col_maxAge == <<"m","a","x","A","g","e">>
col_incomeLimit == <<"i","n","c","o","m","e","L","i","m","i","t">>
col_blob == <<"_","_","b","l","o","b">>
col_display_name == <<"_","_","d","i","s","p","l","a","y","_","n","a","m","e">>
col_score == <<"_","_","s","c","o","r","e">>

TEXT_COL_CANDIDATES ==
  <<col_title, col_name, col_schemeName, col_description, col_eligibility,
    col_schemeCategory, col_category, col_level, col_state, col_department,
    col_tags, col_benefits>>

---------------------------------------------------------------------------
(* Helpers: load & normalize                                               *)

\* The name df.rename gives a stripped column name c.
rename_map(c) ==
  LET lc == lower(c) IN
    IF lc = <<"t","a","g","s">> /\ c # <<"t","a","g","s">> THEN col_tags
    ELSE IF lc = <<"b","e","n","e","f","i","t">> \/ lc = <<"b","e","n","e","f","i","t","s">> THEN col_benefits
    ELSE IF lc \in {<<"c","a","t">>, <<"c","a","t","e","g","o","r","i","e","s">>} THEN col_schemeCategory
    ELSE IF lc \in {<<"s","c","h","e","m","e"," ","n","a","m","e">>, <<"s","c","h","e","m","e","n","a","m","e">>} THEN col_schemeName
    ELSE c

\* df.columns = [c.strip() ...] and then df.rename(columns=rename_map); the
\* header rows considered give no two columns the same name.
rename_columns(d) ==
  LET new == [i \in 1..Len(d.columns) |-> rename_map(strip(d.columns[i]))]
      old(c) == d.columns[CHOOSE i \in 1..Len(new) : new[i] = c]
  IN [columns |-> new,
      rows |-> [r \in 1..Len(d.rows) |->
                  [idx |-> d.rows[r].idx,
                   cells |-> [c \in {new[i] : i \in 1..Len(new)} |->
                                d.rows[r].cells[old(c)]]]]]

\* for col in TEXT_COL_CANDIDATES: if col not in df.columns: df[col] = ""
RECURSIVE ensure_columns(_, _)
ensure_columns(d, cols) ==
  IF cols = <<>> THEN d
  ELSE ensure_columns(
         IF has_column(d, Head(cols)) THEN d
         ELSE assign_column(d, Head(cols), [i \in 1..Len(d.rows) |-> Str(<<>>)]),
         Tail(cols))

\* The columns of TEXT_COL_CANDIDATES the frame has, in that order.
text_cols_present(d) == SelectSeq(TEXT_COL_CANDIDATES, LAMBDA c : has_column(d, c))

\* The blob without .str.lower()
blob_of_not_lowered(d, row) ==
  LET cols == text_cols_present(d) IN
    join([i \in 1..Len(cols) |-> astype_str(fillna(row.cells[cols[i]], Str(<<>>)))])

\* df[text_cols_present].fillna("").astype(str).agg(" ".join, axis=1).str.lower()
blob_of(d, row) ==
  LET cols == text_cols_present(d) IN
    lower(join([i \in 1..Len(cols) |->
                  astype_str(fillna(row.cells[cols[i]], Str(<<>>)))]))

\* row.get(col, "") is a non-blank str
name_usable(row, col) ==
  /\ col \in DOMAIN row.cells
  /\ row.cells[col].kind = "str"
  /\ strip(row.cells[col].s) # <<>>

\* _preferred_name: schemeName, then title, then name, then the sentinel.
preferred_name(row) ==
  IF name_usable(row, col_schemeName) THEN strip(row.cells[col_schemeName].s)
  ELSE IF name_usable(row, col_title) THEN strip(row.cells[col_title].s)
  ELSE IF name_usable(row, col_name) THEN strip(row.cells[col_name].s)
  ELSE <<"U","n","n","a","m","e","d"," ","S","c","h","e","m","e">>

normalize_columns(d) ==
  LET d1 == rename_columns(d)
      d2 == ensure_columns(d1, TEXT_COL_CANDIDATES)
      d3 == assign_column(d2, col_blob,
                          [i \in 1..Len(d2.rows) |-> Str(blob_of(d2, d2.rows[i]))])
      d4 == ensure_columns(d3, <<col_state, col_level>>)
  IN assign_column(d4, col_display_name,
                   [i \in 1..Len(d4.rows) |-> Str(preferred_name(d4.rows[i]))])

\* df.fillna(""): every NaN cell becomes the empty str.
fillna_frame(d) ==
  [columns |-> d.columns,
   rows |-> [r \in 1..Len(d.rows) |->
               [idx |-> d.rows[r].idx,
                cells |-> [c \in DOMAIN d.rows[r].cells |->
                             fillna(d.rows[r].cells[c], Str(<<>>))]]]]

\* _load_dataframe once gov.csv exists and is read.
load_dataframe(d) == normalize_columns(fillna_frame(d))

---------------------------------------------------------------------------
(* Simple scoring recommender                                              *)

\* A profile value: None, or a number (age, income) or a str (the others).
None == [kind |-> "none", s |-> <<>>, n |-> 0]

\* Python truthiness of a str-or-None profile value: `if v`
truthy(v) == v.kind = "str" /\ v.s # <<>>

\* `v and v.lower() != "any"`
not_any(v) == truthy(v) /\ lower(v.s) # <<"a","n","y">>

\* _keywords_from_profile: the stripped, lowercased, non-"any" values of
\* occupation, education, location, category, in that order.
keywords_from_profile(p) ==
  LET vals == <<p.occupation, p.education, p.location, p.category>>
      kept == SelectSeq(vals, LAMBDA v :
                truthy(v) /\ strip(v.s) # <<>> /\ lower(strip(v.s)) # <<"a","n","y">>)
  IN [i \in 1..Len(kept) |-> lower(strip(kept[i].s))]

\* fillna defaults of the three numeric bounds; incomes are counted in
\* thousands (the income widget's step), so 10**12 is 10^9 thousands.
MIN_AGE_DEFAULT == -1
MAX_AGE_DEFAULT == 1000000000
INCOME_LIMIT_DEFAULT == 1000000000

\* out[col].fillna(default).astype(float) raises no ValueError: every cell
\* of the column, as the frame stands, converts.
column_converts(d, col, default) ==
  \A i \in 1..Len(d.rows) : astype_float_ok(fillna(d.rows[i].cells[col], default))

\* out[col].fillna(default).astype(float)
float_column(d, col, default) ==
  [i \in 1..Len(d.rows) |-> astype_float(fillna(d.rows[i].cells[col], default))]

\* series <= x or series >= x
compare(op, a, b) == IF op = "<=" THEN a <= b ELSE a >= b

\* One `if col in out.columns: out = out[out[col].fillna(default)
\* .astype(float) <op> float(x)]`; ok is FALSE once the conversion raised.
numeric_step(res, col, default, op, x) ==
  IF ~res.ok \/ ~has_column(res.frame, col) THEN res
  ELSE IF ~column_converts(res.frame, col, default)
  THEN [ok |-> FALSE, frame |-> EmptyFrame]
  ELSE [ok |-> TRUE,
        frame |-> select_rows(res.frame,
                    [i \in 1..Len(res.frame.rows) |->
                       compare(op, float_column(res.frame, col, default)[i], x)])]

\* _apply_numeric_filters: [ok |-> FALSE, ...] stands for the ValueError.
apply_numeric_filters(p, data) ==
  LET r0 == [ok |-> TRUE, frame |-> data]
      r1 == IF p.age.kind = "none" THEN r0
            ELSE numeric_step(r0, col_minAge, Num(MIN_AGE_DEFAULT), "<=", p.age.n)
      r2 == IF p.age.kind = "none" THEN r1
            ELSE numeric_step(r1, col_maxAge, Num(MAX_AGE_DEFAULT), ">=", p.age.n)
  IN IF p.income.kind = "none" THEN r2
     ELSE numeric_step(r2, col_incomeLimit, Num(INCOME_LIMIT_DEFAULT), ">=",
                       p.income.n)

\* int(True) / int(False)
as_int(b) == IF b THEN 1 ELSE 0

KEYWORD_WEIGHT == 2
OCCUPATION_BLOB_WEIGHT == 5
OCCUPATION_FIELD_WEIGHT == 3
CATEGORY_BLOB_WEIGHT == 3
CATEGORY_ELIGIBILITY_WEIGHT == 2
EDUCATION_BLOB_WEIGHT == 2
EDUCATION_ELIGIBILITY_WEIGHT == 1

\* sum over the keywords of blob.str.contains(kw) * 2
RECURSIVE keyword_score(_, _)
keyword_score(blob, kws) ==
  IF kws = <<>> THEN 0
  ELSE as_int(str_contains(blob, Head(kws))) * KEYWORD_WEIGHT
       + keyword_score(blob, Tail(kws))

\* out[col].astype(str).str.lower().str.contains(kw) for one row, 0 when the
\* frame has no such column
field_hit(d, row, col, kw) ==
  IF has_column(d, col)
  THEN as_int(str_contains(lower(astype_str(row.cells[col])), kw))
  ELSE 0

occupation_score(p, d, row, blob) ==
  IF not_any(p.occupation)
  THEN LET occ_kw == lower(strip(p.occupation.s)) IN
         as_int(str_contains(blob, occ_kw)) * OCCUPATION_BLOB_WEIGHT
         + field_hit(d, row, col_eligibility, occ_kw) * OCCUPATION_FIELD_WEIGHT
         + field_hit(d, row, col_schemeCategory, occ_kw) * OCCUPATION_FIELD_WEIGHT
         + field_hit(d, row, col_description, occ_kw) * OCCUPATION_FIELD_WEIGHT
  ELSE 0

category_score(p, d, row, blob) ==
  IF not_any(p.category)
  THEN LET cat_kw == lower(strip(p.category.s)) IN
         as_int(str_contains(blob, cat_kw)) * CATEGORY_BLOB_WEIGHT
         + field_hit(d, row, col_eligibility, cat_kw) * CATEGORY_ELIGIBILITY_WEIGHT
  ELSE 0

education_score(p, d, row, blob) ==
  IF not_any(p.education)
  THEN LET edu_kw == lower(strip(p.education.s)) IN
         as_int(str_contains(blob, edu_kw)) * EDUCATION_BLOB_WEIGHT
         + field_hit(d, row, col_eligibility, edu_kw) * EDUCATION_ELIGIBILITY_WEIGHT
  ELSE 0

\* The __score _score_rows gives one row.
row_score(p, d, row) ==
  LET blob == astype_str(fillna(row.cells[col_blob], Str(<<>>))) IN
    keyword_score(blob, keywords_from_profile(p))
    + occupation_score(p, d, row, blob)
    + category_score(p, d, row, blob)
    + education_score(p, d, row, blob)

\* Every pattern _score_rows hands to str.contains compiles.
keywords_compile(p) ==
  LET kws == keywords_from_profile(p) IN
    /\ \A i \in 1..Len(kws) : re_valid(kws[i])
    /\ \A v \in {p.occupation, p.category, p.education} :
          not_any(v) => re_valid(lower(strip(v.s)))

\* _score_rows: error is "none" when it returns frame, a copy of the data
\* with the __score column; out["__blob"] raises KeyError on a frame without
\* that column (pd.DataFrame(), the load of a missing gov.csv), before any
\* pattern is compiled.
score_rows(p, data) ==
  IF ~has_column(data, col_blob) THEN [error |-> "KeyError", frame |-> EmptyFrame]
  ELSE IF ~keywords_compile(p) THEN [error |-> "re.error", frame |-> EmptyFrame]
  ELSE [error |-> "none",
        frame |-> assign_column(data, col_score,
                    [i \in 1..Len(data.rows) |->
                       Num(row_score(p, data, data.rows[i]))])]

\* sort_values(["__score"], ascending=[False]): the second key dropped
sorts_before_score_only(rows, i, j) ==
  \/ rows[i].cells[col_score].n > rows[j].cells[col_score].n
  \/ rows[i].cells[col_score].n = rows[j].cells[col_score].n /\ i < j

\* sort_values(["__score", "__display_name"], ascending=[False, True]): row a
\* goes before row b.  The sort is stable, so rows equal on both keys keep
\* their order in the frame.
sorts_before(rows, i, j) ==
  LET a == rows[i]
      b == rows[j]
  IN \/ a.cells[col_score].n > b.cells[col_score].n
     \/ /\ a.cells[col_score].n = b.cells[col_score].n
        /\ \/ str_lt(a.cells[col_display_name].s, b.cells[col_display_name].s)
           \/ /\ a.cells[col_display_name].s = b.cells[col_display_name].s
              /\ i < j

sort_values(d) ==
  LET n == Len(d.rows)
      rank(i) == Cardinality({j \in 1..n : j # i /\ sorts_before(d.rows, j, i)})
  IN [columns |-> d.columns,
      rows |-> [k \in 1..n |-> d.rows[CHOOSE i \in 1..n : rank(i) = k - 1]]]

\* recommend without its zero-score branch
max_score_never_zero(d) == FALSE

\* scored["__score"].max() == 0: the maximum of no rows is NaN, which is not 0.
max_score_is_zero(d) ==
  /\ d.rows # <<>>
  /\ \A i \in 1..Len(d.rows) : d.rows[i].cells[col_score].n <= 0
  /\ \E i \in 1..Len(d.rows) : d.rows[i].cells[col_score].n = 0

\* recommend(profile, data, limit): error is "none" when it returns frame,
\* else the exception it raises; filtered and scored are its two locals
\* (the empty frame when the exception comes before they are bound).
\* sort_values raises KeyError when the frame has no __display_name column.
rank_and_select(f, sc, lim) ==
  IF max_score_is_zero(sc)
  THEN [error |-> "none", filtered |-> f, scored |-> sc, frame |-> head(sc, lim)]
  ELSE IF ~has_column(sc, col_display_name)
  THEN [error |-> "KeyError", filtered |-> f, scored |-> sc, frame |-> EmptyFrame]
  ELSE [error |-> "none", filtered |-> f, scored |-> sc,
        frame |-> head(sort_values(sc), lim)]

score_and_rank(p, f, lim) ==
  IF ~f.ok
  THEN [error |-> "ValueError", filtered |-> EmptyFrame, scored |-> EmptyFrame,
        frame |-> EmptyFrame]
  ELSE LET sc == score_rows(p, f.frame) IN
         IF sc.error # "none"
         THEN [error |-> sc.error, filtered |-> f.frame, scored |-> EmptyFrame,
               frame |-> EmptyFrame]
         ELSE rank_and_select(f.frame, sc.frame, lim)

recommend(p, data, lim) == score_and_rank(p, apply_numeric_filters(p, data), lim)

---------------------------------------------------------------------------
(* Build profile dict & filter dataset                                     *)

\* The profile dict: location is None when the state select is "Any".
build_profile(age, income, occupation, education, category, user_state) ==
  [age |-> age, income |-> income, occupation |-> occupation,
   education |-> education, category |-> category,
   location |-> IF truthy(user_state) /\ user_state.s # <<"A","n","y">>
                THEN user_state ELSE None]

\* Series.str.contains on a cell: a non-str cell counts as no match (na=False).
cell_contains(cell, pat) == cell.kind = "str" /\ str_contains(cell.s, pat)

cell_contains_nocase(cell, pat) ==
  cell.kind = "str" /\ str_contains_nocase(cell.s, pat)

\* The state filter without its central-schemes clause
state_keep_state_only(p, row) ==
  cell_contains_nocase(row.cells[col_state], p.location.s)

\* State filter: the selected state's schemes + central schemes.
state_keep(p, row) ==
  \/ cell_contains_nocase(row.cells[col_state], p.location.s)
  \/ cell_contains_nocase(row.cells[col_level], <<"c","e","n","t","r","a","l">>)

state_filter(p, d) ==
  IF truthy(p.location)
  THEN select_rows(d, [i \in 1..Len(d.rows) |-> state_keep(p, d.rows[i])])
  ELSE d

\* The category filter also keeping rows with blank eligibility
category_keep_or_blank(p, row) ==
  \/ astype_str(row.cells[col_eligibility]) = <<>>
  \/ str_contains(lower(astype_str(row.cells[col_eligibility])), lower(p.category.s))
  \/ cell_contains(row.cells[col_blob], lower(p.category.s))

\* Category filter: eligibility or blob mentions the lowercased category.
category_keep(p, row) ==
  LET cat_kw == lower(p.category.s) IN
    \/ str_contains(lower(astype_str(row.cells[col_eligibility])), cat_kw)
    \/ cell_contains(row.cells[col_blob], cat_kw)

category_filter(p, d) ==
  IF not_any(p.category)
  THEN select_rows(d, [i \in 1..Len(d.rows) |-> category_keep(p, d.rows[i])])
  ELSE d

\* keyword search
search_active(q) == q # <<>> /\ strip(q) # <<>>

search_keep(q, row) == cell_contains(row.cells[col_blob], lower(strip(q)))

search_filter(q, d) ==
  IF search_active(q)
  THEN select_rows(d, [i \in 1..Len(d.rows) |-> search_keep(q, d.rows[i])])
  ELSE d

\* The three filters in the script's order.
filter_stage(p, q, d) == search_filter(q, category_filter(p, state_filter(p, d)))

---------------------------------------------------------------------------
(* Inputs: the gov.csv tables and the sidebar values                       *)

\* The most rows a gov.csv table has here.
MaxRows == 2

\* A text cell as pd.read_csv reads it: NaN when the CSV cell is empty.
text_cell(s) == IF s = <<>> THEN NaN ELSE Str(s)

\* A numeric cell as pd.read_csv reads it; n < 0 stands for an empty CSV cell.
num_cell(n) == IF n < 0 THEN NaN ELSE Num(n)

\* The two header rows of gov.csv considered: the canonical names with the
\* three numeric bounds, and a file with header variants and no bounds.
HEADERS_CANONICAL ==
  <<col_schemeName, col_title, col_name, col_description, col_eligibility,
    col_schemeCategory, col_level, col_state, col_benefits, col_tags,
    col_minAge, col_maxAge, col_incomeLimit>>

HEADERS_VARIANT ==
  <<<<" ","S","c","h","e","m","e"," ","N","a","m","e">>, col_title, col_name, col_description, col_eligibility,
    <<"C","a","t">>, col_level, col_state, <<"B","e","n","e","f","i","t"," ">>, <<"T","A","G","S">>>>

\* One CSV line under a header row: the values in the order of
\* HEADERS_CANONICAL (a variant file has the first ten).
csv_row(headers, idx, texts, nums) ==
  [idx |-> idx,
   cells |-> [h \in {headers[i] : i \in 1..Len(headers)} |->
                LET i == CHOOSE k \in 1..Len(headers) : headers[k] = h IN
                  IF i <= Len(texts) THEN text_cell(texts[i])
                  ELSE num_cell(nums[i - Len(texts)])]]

\* The scheme lines: schemeName, title, name, description, eligibility,
\* schemeCategory, level, state, benefits, tags; then minAge, maxAge,
\* incomeLimit (in thousands), -1 for an empty cell.
SCHEME_TEXTS ==
  << <<<<"F","a","r","m","e","r"," ","A","i","d">>, <<>>, <<>>, <<"f","a","r","m","e","r"," ","s","u","b","s","i","d","y">>, <<"O","p","e","n"," ","t","o"," ","S","C","/","S","T"," ","f","a","r","m","e","r","s">>,
       <<"A","g","r","i","c","u","l","t","u","r","e">>, <<"S","t","a","t","e">>, <<"K","e","r","a","l","a">>, <<"C","a","s","h">>, <<>> >>,
     << <<>>, <<" ","Y","o","u","t","h"," ","P","l","a","n"," ">>, <<"y","p">>, <<"1","0","t","h"," ","p","a","s","s"," ","s","t","u","d","e","n","t","s">>, <<>>,
       <<"E","d","u","c","a","t","i","o","n">>, <<"C","e","n","t","r","a","l"," ","G","o","v","e","r","n","m","e","n","t"," ","S","c","h","e","m","e">>, <<>>, <<>>, <<"Y","o","u","t","h">> >>,
     << <<" "," ">>, <<>>, <<"D","o","c","t","o","r"," ","G","r","a","n","t">>, <<"f","o","r"," ","p","r","o","f","e","s","s","i","o","n","a","l"," ","(","d","o","c","t","o","r",")">>, <<>>,
       <<"H","e","a","l","t","h">>, <<"N","a","t","i","o","n","a","l">>, <<>>, <<"G","r","a","n","t">>, <<>> >>,
     << <<>>, <<>>, <<>>, <<"U","n","d","i","s","c","l","o","s","e","d"," ","1","0","t","h"," ","a","r","t"," ","a","i","d">>, <<"G","o","a"," ","r","e","s","i","d","e","n","t","s">>,
       <<>>, <<"S","t","a","t","e">>, <<"G","o","a">>, <<>>, <<"A","r","t">> >> >>

SCHEME_NUMS ==
  << <<18, 60, 300>>, <<18, 25, -1>>, <<-1, 60, 100>>, <<18, -1, 300>> >>

\* The table read from a file with the given header row and scheme lines.
csv_table(headers, picks) ==
  [columns |-> headers,
   rows |-> [i \in 1..Len(picks) |->
               csv_row(headers, i - 1, SCHEME_TEXTS[picks[i]], SCHEME_NUMS[picks[i]])]]

\* Sequences of 1..MaxRows scheme lines.
Picks == UNION {[1..n -> 1..Len(SCHEME_TEXTS)] : n \in 1..MaxRows}

\* What the load starts from: a table of 1..MaxRows lines under either
\* header row, or EmptyFrame for a missing gov.csv.
RawTables ==
  {EmptyFrame} \cup {csv_table(h, ps) : h \in {HEADERS_CANONICAL, HEADERS_VARIANT},
                                        ps \in Picks}

\* Sidebar values; the two number inputs always hand over a number (25 and 0
\* are their defaults).
AGES == {Num(25), Num(30)}
INCOMES == {Num(0), Num(200)}
OCCUPATIONS == {Str(<<"A","n","y">>), Str(<<"F","a","r","m","e","r">>), Str(<<"P","r","o","f","e","s","s","i","o","n","a","l"," ","(","D","o","c","t","o","r",")">>)}
EDUCATION_LEVELS == {Str(<<"A","n","y">>), Str(<<"1","0","t","h">>)}
CATEGORIES == {Str(<<"A","n","y">>), Str(<<"S","C">>)}
STATES_FOR_SELECT == {Str(<<"A","n","y">>), Str(<<"K","e","r","a","l","a">>)}
LIMITS == {1, 2, MAX_LIMIT}
SEARCHES == {<<>>, <<" ","A","i","d"," ">>, <<"(">>}

\* The sidebar's defaults.
DefaultProfile ==
  build_profile(Num(25), Num(0), Str(<<"A","n","y">>), Str(<<"A","n","y">>), Str(<<"A","n","y">>), Str(<<"A","n","y">>))

---------------------------------------------------------------------------
(* The script                                                              *)

Init ==
  /\ pc = "start"
  /\ raw \in RawTables
  /\ df = EmptyFrame
  /\ profile = DefaultProfile
  /\ search_query = <<>>
  /\ limit = DEFAULT_LIMIT
  /\ results = EmptyFrame
  /\ filtered = EmptyFrame
  /\ scored = EmptyFrame
  /\ recs = EmptyFrame

\* df = _load_dataframe(DATA_FILE)
Load ==
  /\ pc = "start"
  /\ df' = IF raw = EmptyFrame THEN EmptyFrame ELSE load_dataframe(raw)
  /\ pc' = "ready"
  /\ UNCHANGED <<raw, profile, search_query, limit, results, filtered, scored, recs>>

\* The script from the sidebar widgets to the end of the keyword search:
\* the profile is built and the three filters narrow results; a pattern
\* that does not compile raises where it is used.
FilterStage ==
  /\ pc = "ready"
  /\ \E age \in AGES, income \in INCOMES, occupation \in OCCUPATIONS,
        education \in EDUCATION_LEVELS, category \in CATEGORIES,
        user_state \in STATES_FOR_SELECT, lim \in LIMITS, q \in SEARCHES :
       \E p \in {build_profile(age, income, occupation, education, category, user_state)} :
       \E r1 \in {state_filter(p, df)} :
       \E r2 \in {category_filter(p, r1)} :
          /\ profile' = p
          /\ search_query' = q
          /\ limit' = lim
          /\ IF is_empty(df)
             THEN pc' = "nodata" /\ results' = df
             ELSE IF truthy(p.location) /\ ~re_valid(p.location.s)
             THEN pc' = "re.error" /\ results' = df
             ELSE IF not_any(p.category) /\ ~re_valid(lower(p.category.s))
             THEN pc' = "re.error" /\ results' = r1
             ELSE IF search_active(q) /\ ~re_valid(lower(strip(q)))
             THEN pc' = "re.error" /\ results' = r2
             ELSE pc' = "filtered" /\ results' = search_filter(q, r2)
  /\ UNCHANGED <<raw, df, filtered, scored, recs>>

\* recs = recommend(profile, results, limit=limit)
Recommend ==
  /\ pc = "filtered"
  /\ \E r \in {recommend(profile, results, limit)} :
       /\ pc' = IF r.error = "none" THEN "done" ELSE r.error
       /\ filtered' = r.filtered
       /\ scored' = r.scored
       /\ recs' = r.frame
  /\ UNCHANGED <<raw, df, profile, search_query, limit, results>>

\* A widget changes and Streamlit runs the script again; df is cached.
Rerun ==
  /\ pc \in {"done", "nodata", "ValueError", "KeyError", "re.error"}
  /\ pc' = "ready"
  /\ profile' = DefaultProfile
  /\ search_query' = <<>>
  /\ limit' = DEFAULT_LIMIT
  /\ results' = EmptyFrame
  /\ filtered' = EmptyFrame
  /\ scored' = EmptyFrame
  /\ recs' = EmptyFrame
  /\ UNCHANGED <<raw, df>>

Next == Load \/ FilterStage \/ Recommend \/ Rerun

Spec == Init /\ [][Next]_vars

---------------------------------------------------------------------------
(* Properties                                                              *)

Min(a, b) == IF a < b THEN a ELSE b

\* The index labels of a frame's rows, in order.
RowIds(d) == [i \in 1..Len(d.rows) |-> d.rows[i].idx]

ScoreOf(row) == row.cells[col_score].n
NameOf(row) == row.cells[col_display_name].s

\* C1: the sequence recommend returns is no longer than min(limit, number
\* of input records), and each element is an input record (same index
\* label, same value in every input column) carrying a numeric __score.
C1_BoundedOutput ==
  pc = "done" =>
    /\ Len(recs.rows) <= Min(limit, Len(results.rows))
    /\ \A k \in 1..Len(recs.rows) :
         /\ \E i \in 1..Len(results.rows) :
              /\ results.rows[i].idx = recs.rows[k].idx
              /\ \A c \in DOMAIN results.rows[i].cells :
                   recs.rows[k].cells[c] = results.rows[i].cells[c]
         /\ col_score \in DOMAIN recs.rows[k].cells
         /\ recs.rows[k].cells[col_score].kind = "num"

\* recommend returned fewer records than it was given: the limit cut.
C1_Witness ==
  /\ pc = "done"
  /\ Len(results.rows) > limit
  /\ Len(recs.rows) = limit

\* Score descending, and displayName ascending among equal scores.
Ordered(rows) ==
  \A i, j \in 1..Len(rows) :
    i < j => \/ ScoreOf(rows[i]) > ScoreOf(rows[j])
             \/ /\ ScoreOf(rows[i]) = ScoreOf(rows[j])
                /\ ~str_lt(NameOf(rows[j]), NameOf(rows[i]))

\* C2 as stated: every output of recommend is in order of score descending,
\* equal scores by displayName ascending.
C2_AlwaysOrdered == pc = "done" => Ordered(recs.rows)

\* C2 amended: when some surviving record scores above 0, the output is in
\* order of score descending, equal scores by displayName ascending, and
\* records equal on both keep their input order.
C2_OrderedWhenScored ==
  (pc = "done" /\ \E k \in 1..Len(scored.rows) : ScoreOf(scored.rows[k]) > 0) =>
    /\ Ordered(recs.rows)
    /\ \A i, j \in 1..Len(recs.rows) :
         (/\ i < j
          /\ ScoreOf(recs.rows[i]) = ScoreOf(recs.rows[j])
          /\ NameOf(recs.rows[i]) = NameOf(recs.rows[j]))
            => recs.rows[i].idx < recs.rows[j].idx

\* Two records tie on a positive score and the name put the later one first.
C2_Witness ==
  /\ pc = "done"
  /\ Len(recs.rows) >= 2
  /\ ScoreOf(recs.rows[1]) > 0
  /\ ScoreOf(recs.rows[1]) = ScoreOf(recs.rows[2])
  /\ str_lt(NameOf(recs.rows[1]), NameOf(recs.rows[2]))
  /\ recs.rows[1].idx > recs.rows[2].idx

AllScoresZero(d) == \A k \in 1..Len(d.rows) : ScoreOf(d.rows[k]) = 0

\* C3: when at least one record survives the numeric filters and every
\* survivor scores 0, recommend returns the first min(limit, survivors)
\* survivors in their input order.
C3_ZeroScoreFallback ==
  (pc = "done" /\ filtered.rows # <<>> /\ AllScoresZero(scored)) =>
    /\ RowIds(recs) = SubSeq(RowIds(filtered), 1, Min(limit, Len(filtered.rows)))
    /\ AllScoresZero(recs)

\* Two survivors score 0, their names are out of order, the limit is 1 and
\* the first survivor is returned.
C3_Witness ==
  /\ pc = "done"
  /\ Len(scored.rows) = 2
  /\ AllScoresZero(scored)
  /\ limit = 1
  /\ str_lt(NameOf(scored.rows[2]), NameOf(scored.rows[1]))
  /\ RowIds(recs) = <<filtered.rows[1].idx>>

\* The filter stage ran to its end (no pattern failed to compile).
FilterRan == pc \in {"filtered", "done", "ValueError"}

LocationActive == truthy(profile.location) /\ lower(profile.location.s) # <<"a","n","y">>
CategoryActive == truthy(profile.category) /\ lower(profile.category.s) # <<"a","n","y">>
SearchActive == strip(search_query) # <<>>

\* The location predicate as claimed: the state text contains the location,
\* case-insensitively, or the level text contains one of the scope words.
LocationKeeps(row, words) ==
  \/ str_in(lower(profile.location.s), lower(row.cells[col_state].s))
  \/ \E w \in words : str_in(w, lower(row.cells[col_level].s))

LocationPredicate(words) ==
  (FilterRan /\ LocationActive) =>
    /\ \A k \in 1..Len(results.rows) : LocationKeeps(results.rows[k], words)
    /\ (~CategoryActive /\ ~SearchActive) =>
         results.rows = SelectSeq(df.rows, LAMBDA row : LocationKeeps(row, words))

\* C4 as stated: with a location set, a record survives the location
\* predicate iff its state contains the location or its level contains
\* "central", "national" or "all india".
C4_NationwideKept == LocationPredicate({<<"c","e","n","t","r","a","l">>, <<"n","a","t","i","o","n","a","l">>, <<"a","l","l"," ","i","n","d","i","a">>})

\* C4 amended: with a location set, a record survives the location
\* predicate iff its state contains the location or its level contains
\* "central".
C4_CentralKept == LocationPredicate({<<"c","e","n","t","r","a","l">>})

\* Only the location filter is active; a central record with no state is
\* kept and a record whose level is "National" is dropped.
C4_Witness ==
  /\ FilterRan /\ LocationActive /\ ~CategoryActive /\ ~SearchActive
  /\ \E k \in 1..Len(results.rows) :
       /\ results.rows[k].cells[col_state].s = <<>>
       /\ str_in(<<"c","e","n","t","r","a","l">>, lower(results.rows[k].cells[col_level].s))
  /\ \E i \in 1..Len(df.rows) :
       /\ str_in(<<"n","a","t","i","o","n","a","l">>, lower(df.rows[i].cells[col_level].s))
       /\ \A k \in 1..Len(results.rows) : results.rows[k].idx # df.rows[i].idx

\* A bound of the record is absent: no such column, or a blank cell.
BoundAbsent(d, row, col) == ~has_column(d, col) \/ row.cells[col].kind # "num"

\* The numeric predicate as claimed: an absent bound constrains nothing.
NumericKeeps(d, row) ==
  /\ profile.age.kind = "num" =>
       /\ BoundAbsent(d, row, col_minAge) \/ row.cells[col_minAge].n <= profile.age.n
       /\ BoundAbsent(d, row, col_maxAge) \/ row.cells[col_maxAge].n >= profile.age.n
  /\ profile.income.kind = "num" =>
       BoundAbsent(d, row, col_incomeLimit)
         \/ row.cells[col_incomeLimit].n >= profile.income.n

\* recommend was called and has returned or raised.
RecommendEnded == pc \in {"done", "ValueError"}

\* C5: with age and/or income set, the numeric filter does not fail and
\* keeps exactly the records whose present bounds admit the profile; a
\* blank or absent bound excludes nothing.
C5_BlankBoundUnconstrained ==
  (RecommendEnded /\ (profile.age.kind = "num" \/ profile.income.kind = "num")) =>
    /\ pc = "done"
    /\ filtered.rows = SelectSeq(results.rows, LAMBDA row : NumericKeeps(results, row))

\* The category predicate as claimed: eligibility or blob contains the
\* lowercased category as a substring.
CategoryKeeps(row) ==
  \/ str_in(lower(profile.category.s), lower(row.cells[col_eligibility].s))
  \/ str_in(lower(profile.category.s), row.cells[col_blob].s)

\* C6: with a category set, a record survives the category predicate iff
\* its eligibility text or its blob contains the lowercased category; a
\* record with empty eligibility and no mention in the blob is dropped.
C6_CategoryPredicate ==
  (FilterRan /\ CategoryActive) =>
    /\ \A k \in 1..Len(results.rows) : CategoryKeeps(results.rows[k])
    /\ (~LocationActive /\ ~SearchActive) =>
         results.rows = SelectSeq(df.rows, LAMBDA row : CategoryKeeps(row))

\* Only the category filter is active; a record with empty eligibility is
\* kept through its blob and another with empty eligibility is dropped.
C6_Witness ==
  /\ FilterRan /\ CategoryActive /\ ~LocationActive /\ ~SearchActive
  /\ \E k \in 1..Len(results.rows) : results.rows[k].cells[col_eligibility].s = <<>>
  /\ \E i \in 1..Len(df.rows) :
       /\ df.rows[i].cells[col_eligibility].s = <<>>
       /\ \A k \in 1..Len(results.rows) : results.rows[k].idx # df.rows[i].idx

\* A profile field counts as a keyword when set and not "any".
IsKeyword(v) == truthy(v) /\ lower(strip(v.s)) \notin {<<>>, <<"a","n","y">>}

\* 1 when the lowercased text contains the field's keyword, else 0.
Hit(v, text) == IF str_in(lower(strip(v.s)), lower(text)) THEN 1 ELSE 0

\* The score as claimed, with the occupation constant left open.
ClaimedScore(row, occ_boost) ==
  LET blob == row.cells[col_blob].s
      elig == row.cells[col_eligibility].s
      kw(v) == IF IsKeyword(v) THEN 2 * Hit(v, blob) ELSE 0
  IN kw(profile.occupation) + kw(profile.education)
     + kw(profile.location) + kw(profile.category)
     + (IF IsKeyword(profile.occupation)
        THEN occ_boost * Hit(profile.occupation, blob)
             + 3 * Hit(profile.occupation, elig)
             + 3 * Hit(profile.occupation, row.cells[col_schemeCategory].s)
             + 3 * Hit(profile.occupation, row.cells[col_description].s)
        ELSE 0)
     + (IF IsKeyword(profile.category)
        THEN 3 * Hit(profile.category, blob) + 2 * Hit(profile.category, elig)
        ELSE 0)
     + (IF IsKeyword(profile.education)
        THEN 2 * Hit(profile.education, blob) + Hit(profile.education, elig)
        ELSE 0)

\* C7: every surviving record's score is the sum of the claimed substring
\* matches, the occupation constant being 6 or its variant 5.
C7_ScoreFormula ==
  pc = "done" =>
    \E occ_boost \in {5, 6} :
      \A k \in 1..Len(scored.rows) :
        ScoreOf(scored.rows[k]) = ClaimedScore(scored.rows[k], occ_boost)

\* C8: after normalization (df is set once, by the load) every canonical
\* text field of every record is a str whose lowercased value is a substring
\* of the record's blob.
C8_BlobSuperset ==
  pc = "ready" =>
    \A i \in 1..Len(df.rows) :
      \A c \in 1..Len(TEXT_COL_CANDIDATES) :
        LET cell == df.rows[i].cells[TEXT_COL_CANDIDATES[c]] IN
          /\ cell.kind = "str"
          /\ str_in(lower(cell.s), df.rows[i].cells[col_blob].s)

\* A file with header variants was normalized: a renamed column holds text
\* with capitals, found lowercased in the blob.
C8_Witness ==
  /\ pc = "ready"
  /\ raw.columns = HEADERS_VARIANT
  /\ \E i \in 1..Len(df.rows) :
       /\ df.rows[i].cells[col_schemeName].s # lower(df.rows[i].cells[col_schemeName].s)
       /\ df.rows[i].cells[col_benefits].s # <<>>
       /\ str_in(lower(df.rows[i].cells[col_benefits].s), df.rows[i].cells[col_blob].s)

\* C9: when no record given to recommend passes the numeric predicate (so
\* none is left after filtering), recommend returns an empty sequence and
\* raises nothing.
C9_EmptyNotError ==
  (RecommendEnded
   /\ SelectSeq(results.rows, LAMBDA row : NumericKeeps(results, row)) = <<>>) =>
    pc = "done" /\ recs.rows = <<>>

\* Every active predicate of the eligibility filter holds of the record.
EligibilityKeeps(row) ==
  /\ LocationActive => state_keep(profile, row)
  /\ CategoryActive => category_keep(profile, row)
  /\ SearchActive => search_keep(search_query, row)
  /\ NumericKeeps(df, row)

\* C10: the survivors are exactly the records of the dataset that satisfy
\* every active predicate, in their order; filtering the survivors again
\* changes nothing; and the numeric predicates applied before the text
\* predicates leave the same survivors.
C10_FilterAlgebra ==
  pc = "done" =>
    /\ filtered.rows = SelectSeq(df.rows, EligibilityKeeps)
    /\ filter_stage(profile, search_query, filtered) = filtered
    /\ apply_numeric_filters(profile, filtered) = [ok |-> TRUE, frame |-> filtered]
    /\ apply_numeric_filters(profile, df).ok
    /\ filter_stage(profile, search_query, apply_numeric_filters(profile, df).frame)
         = filtered

=============================================================================
